---- MODULE Spec2Model ----
(***************************************************************************)
(* A model of the DNS wire-format codec of Rust_DNS: the 512-byte          *)
(* BytePacketBuffer with its cursor, the bit-packed DnsHeader, the         *)
(* compressed-name reader and the name writer, DnsQuestion and DnsPacket.  *)
(* Every Result-returning method is an operator from the receiver's value  *)
(* to a record [ok, err, b, val]: b is the buffer the call leaves behind   *)
(* (also when it fails), val the value returned on success.                *)
(***************************************************************************)
EXTENDS Integers, Sequences, FiniteSets, TLC

VARIABLES buffer, input, pc, last, output, rq, nops

vars == <<buffer, input, pc, last, output, rq, nops>>

(***************************************************************************)
(* Program constants.                                                      *)
(***************************************************************************)
Capacity == 512

max_jumps == 5

MaxLabelLen == 63

Byte == 0..255

(***************************************************************************)
(* Fixed-width integer arithmetic (u8/u16 shifts and bitwise operators).   *)
(***************************************************************************)
RECURSIVE BitOp(_, _, _, _)
BitOp(kind, x, y, w) ==
  IF w = 0 THEN 0
  ELSE LET bx == x % 2
           by == y % 2
           r  == CASE kind = "or"  -> IF bx + by > 0 THEN 1 ELSE 0
                   [] kind = "and" -> IF bx + by = 2 THEN 1 ELSE 0
                   [] kind = "xor" -> IF bx + by = 1 THEN 1 ELSE 0
       IN r + 2 * BitOp(kind, x \div 2, y \div 2, w - 1)

BitOr(x, y) == BitOp("or", x, y, 16)

BitAnd(x, y) == BitOp("and", x, y, 16)

BitXor(x, y) == BitOp("xor", x, y, 16)

Pow2(n) == IF n = 0 THEN 1 ELSE IF n = 1 THEN 2 ELSE IF n = 2 THEN 4
           ELSE IF n = 3 THEN 8 ELSE IF n = 4 THEN 16 ELSE IF n = 5 THEN 32
           ELSE IF n = 6 THEN 64 ELSE IF n = 7 THEN 128 ELSE IF n = 8 THEN 256
           ELSE 65536

\* x << n on a w-bit unsigned integer: the bits shifted out are lost
Shl(x, n, w) == (x * Pow2(n)) % Pow2(w)

Shr(x, n) == x \div Pow2(n)

AsU8(x) == x % 256

BoolU8(f) == IF f THEN 1 ELSE 0

(***************************************************************************)
(* super::Result<T>                                                        *)
(***************************************************************************)
ErrEnd == "end of buffer"

ErrJumps == "limit of 5 jumps exceeded"

ErrLabel == "Single label exceeds 63 characters of length"

Ok(b, v) == [ok |-> TRUE, err |-> "", b |-> b, val |-> v]

Err(b, e) == [ok |-> FALSE, err |-> e, b |-> b, val |-> 0]

\* `r?` and what follows it: the error of r is returned, or Rest continues
\* from the Ok value
Then(r, Rest(_)) == IF ~r.ok THEN Err(r.b, r.err) ELSE Rest(r)

(***************************************************************************)
(* BytePacketBuffer                                                        *)
(***************************************************************************)
new == [buf |-> [i \in 0..(Capacity - 1) |-> 0], pos |-> 0]

step(b, steps) == Ok([b EXCEPT !.pos = b.pos + steps], 0)

seek(b, p) == Ok([b EXCEPT !.pos = p], 0)

read_past_end(b) ==
  IF b.pos > Capacity THEN Err(b, ErrEnd)
  ELSE Ok([b EXCEPT !.pos = b.pos + 1], IF b.pos < Capacity THEN b.buf[b.pos] ELSE 0)

read(b) ==
  IF b.pos >= Capacity THEN Err(b, ErrEnd)
  ELSE Ok([b EXCEPT !.pos = b.pos + 1], b.buf[b.pos])

get(b, p) ==
  IF p >= Capacity THEN Err(b, ErrEnd)
  ELSE Ok(b, b.buf[p])

get_range_inclusive(b, start, len) ==
  IF start + len > Capacity THEN Err(b, ErrEnd)
  ELSE Ok(b, [i \in 1..len |-> b.buf[start + i - 1]])

get_range(b, start, len) ==
  IF start + len >= Capacity THEN Err(b, ErrEnd)
  ELSE Ok(b, [i \in 1..len |-> b.buf[start + i - 1]])

read_u16(b) ==
  Then(read(b), LAMBDA r1 :
  Then(read(r1.b), LAMBDA r2 :
  Ok(r2.b, BitOr(Shl(r1.val, 8, 16), r2.val))))

\* A u32 is held as its four bytes, most significant first (a u32 does not
\* fit the integers of the model checker): (b1 << 24) | (b2 << 16) | (b3 << 8) | b4
\* is <<b1, b2, b3, b4>>, and (val >> 24) & 0xFF is val[1].
read_u32(b) ==
  Then(read(b), LAMBDA r1 :
  Then(read(r1.b), LAMBDA r2 :
  Then(read(r2.b), LAMBDA r3 :
  Then(read(r3.b), LAMBDA r4 :
  Ok(r4.b, <<r1.val, r2.val, r3.val, r4.val>>)))))

write(b, v) ==
  IF b.pos >= Capacity THEN Err(b, ErrEnd)
  ELSE Ok([buf |-> [b.buf EXCEPT ![b.pos] = v], pos |-> b.pos + 1], 0)

write_u8(b, v) == write(b, v)

write_u16(b, v) ==
  Then(write(b, AsU8(Shr(v, 8))), LAMBDA r1 :
  write(r1.b, BitAnd(v, 255)))

write_u32(b, v) ==
  Then(write(b, v[1]), LAMBDA r1 :
  Then(write(r1.b, v[2]), LAMBDA r2 :
  Then(write(r2.b, v[3]), LAMBDA r3 :
  write(r3.b, v[4]))))

\* A run of fixed-width reads, each followed by `?`: the values read, in
\* order, or the first error.  A width is 1 (read), 2 (read_u16) or 4 (read_u32).
read_field(b, w) ==
  CASE w = 1 -> read(b)
    [] w = 2 -> read_u16(b)
    [] w = 4 -> read_u32(b)

RECURSIVE read_fields(_, _, _)
read_fields(b, widths, acc) ==
  IF widths = <<>> THEN Ok(b, acc)
  ELSE Then(read_field(b, Head(widths)), LAMBDA r :
       read_fields(r.b, Tail(widths), Append(acc, r.val)))

\* A run of fixed-width writes, each followed by `?`; a field is <<width, value>>.
write_field(b, f) ==
  CASE f[1] = 1 -> write_u8(b, f[2])
    [] f[1] = 2 -> write_u16(b, f[2])
    [] f[1] = 4 -> write_u32(b, f[2])

RECURSIVE write_fields(_, _)
write_fields(b, fields) ==
  IF fields = <<>> THEN Ok(b, 0)
  ELSE Then(write_field(b, Head(fields)), LAMBDA r :
       write_fields(r.b, Tail(fields)))

(***************************************************************************)
(* Strings are sequences of character codes.  String::from_utf8_lossy      *)
(* keeps an ASCII byte and replaces a byte that can start or continue no   *)
(* valid UTF-8 sequence by U+FFFD; the only non-ASCII bytes the buffers of *)
(* this model hold are 0xC0 and 0xC1, which never occur in valid UTF-8.    *)
(* str::to_lowercase folds A-Z and leaves the other codes used here alone. *)
(***************************************************************************)
Dot == 46

ReplacementChar == 65533

from_utf8_lossy(bytes) ==
  [i \in 1..Len(bytes) |-> IF bytes[i] < 128 THEN bytes[i] ELSE ReplacementChar]

to_lowercase(s) ==
  [i \in 1..Len(s) |-> IF s[i] >= 65 /\ s[i] <= 90 THEN s[i] + 32 ELSE s[i]]

\* str::split('.'): the pieces between the dots, one more than there are dots
RECURSIVE split(_)
split(s) ==
  IF \A i \in 1..Len(s) : s[i] # Dot THEN <<s>>
  ELSE LET k == CHOOSE i \in 1..Len(s) :
                  s[i] = Dot /\ \A j \in 1..(i - 1) : s[j] # Dot
       IN <<SubSeq(s, 1, k - 1)>> \o split(SubSeq(s, k + 1, Len(s)))

(***************************************************************************)
(* BytePacketBuffer::read_qname.  rq_init is the prologue (lines 84-90),   *)
(* rq_body one iteration of the loop (lines 92-146), rq_exit the epilogue  *)
(* (lines 148-152).  The record carries the buffer, the locals and the     *)
(* output string; pc is "loop", "exit" (after break), "ok" or "err".       *)
(***************************************************************************)
rq_init(b, outstr) ==
  [b |-> b, p |-> b.pos, jumped |-> FALSE, jumps_performed |-> 0,
   delim |-> <<>>, outstr |-> outstr, pc |-> "loop", err |-> ""]

is_pointer_exact(len) == len = 192

is_pointer(len) == BitAnd(len, 192) = 192

rq_jump_count(n) == n + 1

too_many_jumps_early(n) == n >= max_jumps

too_many_jumps(n) == n > max_jumps

rq_jump_seek_always(st, b) == seek(b, st.p + 2).b

rq_jump_seek(st, b) == IF ~st.jumped THEN seek(b, st.p + 2).b ELSE b

rq_body(st) ==
  IF too_many_jumps(st.jumps_performed)
  THEN [st EXCEPT !.pc = "err", !.err = ErrJumps]
  ELSE
  LET g == get(st.b, st.p) IN
  IF ~g.ok THEN [st EXCEPT !.pc = "err", !.err = g.err]
  ELSE
  LET len == g.val IN
  IF is_pointer(len)
  THEN LET b1 == rq_jump_seek(st, st.b)
           g2 == get(b1, st.p + 1)
       IN IF ~g2.ok THEN [st EXCEPT !.b = b1, !.pc = "err", !.err = g2.err]
          ELSE [st EXCEPT !.b = b1,
                          !.p = BitOr(Shl(BitXor(len, 192), 8, 16), g2.val),
                          !.jumped = TRUE,
                          !.jumps_performed = rq_jump_count(st.jumps_performed)]
  ELSE
  LET p1 == st.p + 1 IN
  IF len = 0 THEN [st EXCEPT !.p = p1, !.pc = "exit"]
  ELSE
  LET out1 == st.outstr \o st.delim
      gr   == get_range(st.b, p1, len)
  IN IF ~gr.ok THEN [st EXCEPT !.p = p1, !.outstr = out1, !.pc = "err", !.err = gr.err]
     ELSE [st EXCEPT !.p = p1 + len,
                     !.outstr = out1 \o to_lowercase(from_utf8_lossy(gr.val)),
                     !.delim = <<Dot>>]

rq_exit(st) ==
  IF ~st.jumped THEN [st EXCEPT !.b = seek(st.b, st.p).b, !.pc = "ok"]
  ELSE [st EXCEPT !.pc = "ok"]

RECURSIVE rq_run(_)
rq_run(st) ==
  IF st.pc = "loop" THEN rq_run(rq_body(st))
  ELSE IF st.pc = "exit" THEN rq_exit(st)
  ELSE st

\* the call as a whole; val is the string the call leaves in outstr
read_qname(b, outstr) ==
  LET st == rq_run(rq_init(b, outstr)) IN
  [ok |-> st.pc = "ok", err |-> st.err, b |-> st.b, val |-> st.outstr]

(***************************************************************************)
(* BytePacketBuffer::write_qname                                           *)
(***************************************************************************)
\* for b in label.as_bytes() { self.write_u8(*b)?; }: the bytes in order, the
\* first half of the run and then the second
RECURSIVE write_bytes(_, _)
write_bytes(b, bytes) ==
  IF bytes = <<>> THEN Ok(b, 0)
  ELSE IF Len(bytes) = 1 THEN write_u8(b, bytes[1])
  ELSE LET h == Len(bytes) \div 2 IN
       Then(write_bytes(b, SubSeq(bytes, 1, h)), LAMBDA r :
       write_bytes(r.b, SubSeq(bytes, h + 1, Len(bytes))))

label_too_long_at_limit(len) == len >= MaxLabelLen

label_too_long(len) == len > MaxLabelLen

write_label(b, label) ==
  LET len == Len(label) IN
  IF label_too_long(len) THEN Err(b, ErrLabel)
  ELSE Then(write_u8(b, AsU8(len)), LAMBDA r :
       write_bytes(r.b, label))

RECURSIVE write_labels(_, _)
write_labels(b, labels) ==
  IF labels = <<>> THEN Ok(b, 0)
  ELSE Then(write_label(b, Head(labels)), LAMBDA r :
       write_labels(r.b, Tail(labels)))

write_qname(b, qname) ==
  Then(write_labels(b, split(qname)), LAMBDA r :
  write_u8(r.b, 0))

(***************************************************************************)
(* result::ResultCode and query::QueryType.  A ResultCode is its name; a   *)
(* QueryType is [tag, num], num being the code an UNKNOWN carries (0 for   *)
(* the named variants).                                                    *)
(***************************************************************************)
ResultCodes == {"NOERROR", "FORMERR", "SERVFAIL", "NXDOMAIN", "NOTIMP", "REFUSED"}

ResultCode_as_u8(rc) ==
  CASE rc = "NOERROR"  -> 0
    [] rc = "FORMERR"  -> 1
    [] rc = "SERVFAIL" -> 2
    [] rc = "NXDOMAIN" -> 3
    [] rc = "NOTIMP"   -> 4
    [] rc = "REFUSED"  -> 5

ResultCode_from_num(n) ==
  CASE n = 1 -> "FORMERR"
    [] n = 2 -> "SERVFAIL"
    [] n = 3 -> "NXDOMAIN"
    [] n = 4 -> "NOTIMP"
    [] n = 5 -> "REFUSED"
    [] OTHER -> "NOERROR"

QType(tag) == [tag |-> tag, num |-> 0]

UNKNOWN(n) == [tag |-> "UNKNOWN", num |-> n]

QueryType_to_num(q) ==
  CASE q.tag = "A"     -> 1
    [] q.tag = "NS"    -> 2
    [] q.tag = "CNAME" -> 5
    [] q.tag = "MX"    -> 15
    [] q.tag = "AAAA"  -> 28
    [] OTHER           -> q.num

QueryType_from_num(n) ==
  CASE n = 1  -> QType("A")
    [] n = 2  -> QType("NS")
    [] n = 5  -> QType("CNAME")
    [] n = 15 -> QType("MX")
    [] n = 28 -> QType("AAAA")
    [] OTHER  -> UNKNOWN(n)

(***************************************************************************)
(* DnsHeader                                                               *)
(***************************************************************************)
DnsHeader_new ==
  [id |-> 0, recursion_desired |-> FALSE, truncated_message |-> FALSE,
   authoritative_answer |-> FALSE, opcode |-> 0, response |-> FALSE,
   rescode |-> "NOERROR", checking_disabled |-> FALSE, authed_data |-> FALSE,
   z |-> FALSE, recursion_available |-> FALSE,
   questions |-> 0, answers |-> 0, authoritative_entries |-> 0,
   resource_entries |-> 0]

Bit(x, n) == BitAnd(x, Shl(1, n, 8)) > 0

header_opcode(a) == BitAnd(Shr(a, 3), 15)

\* the fields of h that read assigns from id, flags and the four counts
header_from(h, id, flags, counts) ==
  LET a  == AsU8(Shr(flags, 8))
      bb == AsU8(BitAnd(flags, 255))
  IN [h EXCEPT !.id = id,
               !.recursion_desired = Bit(a, 0),
               !.truncated_message = Bit(a, 1),
               !.authoritative_answer = Bit(a, 2),
               !.opcode = header_opcode(a),
               !.response = Bit(a, 7),
               !.rescode = ResultCode_from_num(BitAnd(bb, 15)),
               !.checking_disabled = Bit(bb, 4),
               !.authed_data = Bit(bb, 5),
               !.z = Bit(bb, 6),
               !.recursion_available = Bit(bb, 7),
               !.questions = counts[1],
               !.answers = counts[2],
               !.authoritative_entries = counts[3],
               !.resource_entries = counts[4]]

\* val is the header read
DnsHeader_read(h, b) ==
  Then(read_fields(b, <<2, 2, 2, 2, 2, 2>>, <<>>), LAMBDA r :
  Ok(r.b, header_from(h, r.val[1], r.val[2], SubSeq(r.val, 3, 6))))

header_byte_a_transposed(h) ==
  BitOr(BitOr(BitOr(BitOr(BoolU8(h.recursion_desired),
                          Shl(BoolU8(h.truncated_message), 2, 8)),
                    Shl(BoolU8(h.authoritative_answer), 1, 8)),
              Shl(h.opcode, 3, 8)),
        Shl(BoolU8(h.response), 7, 8))

header_byte_a(h) ==
  BitOr(BitOr(BitOr(BitOr(BoolU8(h.recursion_desired),
                          Shl(BoolU8(h.truncated_message), 1, 8)),
                    Shl(BoolU8(h.authoritative_answer), 2, 8)),
              Shl(h.opcode, 3, 8)),
        Shl(BoolU8(h.response), 7, 8))

header_byte_b(h) ==
  BitOr(BitOr(BitOr(BitOr(ResultCode_as_u8(h.rescode),
                          Shl(BoolU8(h.checking_disabled), 4, 8)),
                    Shl(BoolU8(h.authed_data), 5, 8)),
              Shl(BoolU8(h.z), 6, 8)),
        Shl(BoolU8(h.recursion_available), 7, 8))

DnsHeader_write(h, b) ==
  write_fields(b, <<<<2, h.id>>,
                    <<1, header_byte_a(h)>>,
                    <<1, header_byte_b(h)>>,
                    <<2, h.questions>>,
                    <<2, h.answers>>,
                    <<2, h.authoritative_entries>>,
                    <<2, h.resource_entries>>>>)

(***************************************************************************)
(* DnsQuestion                                                             *)
(***************************************************************************)
DnsQuestion_new(name, qtype) == [name |-> name, qtype |-> qtype]

\* val is the question read; read_qname appends to the name the question holds
DnsQuestion_read(q, b) ==
  Then(read_qname(b, q.name), LAMBDA r1 :
  Then(read_fields(r1.b, <<2, 2>>, <<>>), LAMBDA r2 :
  Ok(r2.b, [name |-> r1.val, qtype |-> QueryType_from_num(r2.val[1])])))

DnsQuestion_write(q, b) ==
  Then(write_qname(b, q.name), LAMBDA r1 :
  write_fields(r1.b, <<<<2, QueryType_to_num(q.qtype)>>, <<2, 1>>>>))

(***************************************************************************)
(* record::DnsRecord: the A variant [domain, addr, ttl] and, on reading,   *)
(* the UNKNOWN variant [domain, qtype, data_len, ttl] whose payload is     *)
(* skipped.                                                                *)
(***************************************************************************)
DnsRecord_write(rec, b) ==
  Then(write_qname(b, rec.domain), LAMBDA r1 :
  Then(write_fields(r1.b, <<<<2, QueryType_to_num(QType("A"))>>, <<2, 1>>,
                            <<4, rec.ttl>>, <<2, 4>>>>), LAMBDA r2 :
  write_bytes(r2.b, rec.addr)))

\* the payload of a record of type code qtype and length data_len; val is the address
record_payload(b, qtype, data_len) ==
  IF QueryType_from_num(qtype) = QType("A")
  THEN read_fields(b, <<1, 1, 1, 1>>, <<>>)
  ELSE Ok(step(b, data_len).b, <<>>)

DnsRecord_read(b) ==
  Then(read_qname(b, <<>>), LAMBDA r1 :
  Then(read_fields(r1.b, <<2, 2, 4, 2>>, <<>>), LAMBDA r2 :
  Then(record_payload(r2.b, r2.val[1], r2.val[4]), LAMBDA r3 :
  Ok(r3.b, [variant |-> IF QueryType_from_num(r2.val[1]) = QType("A")
                        THEN "A" ELSE "UNKNOWN",
            domain |-> r1.val, qtype |-> r2.val[1], addr |-> r3.val,
            data_len |-> r2.val[4], ttl |-> r2.val[3]]))))

(***************************************************************************)
(* DnsPacket                                                               *)
(***************************************************************************)
DnsPacket_new ==
  [header |-> DnsHeader_new, questions |-> <<>>, answers |-> <<>>,
   authorities |-> <<>>, resources |-> <<>>]

\* for _ in 0..n { question.read(buffer)?; push }
RECURSIVE read_questions(_, _, _)
read_questions(b, n, acc) ==
  IF n = 0 THEN Ok(b, acc)
  ELSE Then(DnsQuestion_read(DnsQuestion_new(<<>>, UNKNOWN(0)), b), LAMBDA r :
       read_questions(r.b, n - 1, Append(acc, r.val)))

\* for _ in 0..n { DnsRecord::read(buffer)?; push }
RECURSIVE read_records(_, _, _)
read_records(b, n, acc) ==
  IF n = 0 THEN Ok(b, acc)
  ELSE Then(DnsRecord_read(b), LAMBDA r :
       read_records(r.b, n - 1, Append(acc, r.val)))

\* the three record loops, in order: answers, authorities, resources
RECURSIVE read_record_sections(_, _, _)
read_record_sections(b, counts, acc) ==
  IF counts = <<>> THEN Ok(b, acc)
  ELSE Then(read_records(b, Head(counts), <<>>), LAMBDA r :
       read_record_sections(r.b, Tail(counts), Append(acc, r.val)))

\* val is the packet read
DnsPacket_from_buffer(b) ==
  Then(DnsHeader_read(DnsHeader_new, b), LAMBDA r0 :
  Then(read_questions(r0.b, r0.val.questions, <<>>), LAMBDA r1 :
  Then(read_record_sections(r1.b, <<r0.val.answers, r0.val.authoritative_entries,
                                    r0.val.resource_entries>>, <<>>), LAMBDA r2 :
  Ok(r2.b, [header |-> r0.val, questions |-> r1.val, answers |-> r2.val[1],
            authorities |-> r2.val[2], resources |-> r2.val[3]]))))

RECURSIVE write_questions(_, _)
write_questions(b, qs) ==
  IF qs = <<>> THEN Ok(b, 0)
  ELSE Then(DnsQuestion_write(Head(qs), b), LAMBDA r :
       write_questions(r.b, Tail(qs)))

RECURSIVE write_records(_, _)
write_records(b, recs) ==
  IF recs = <<>> THEN Ok(b, 0)
  ELSE Then(DnsRecord_write(Head(recs), b), LAMBDA r :
       write_records(r.b, Tail(recs)))

packet_keep_counts(pkt) == pkt

\* self.header.<count> = self.<sequence>.len() as u16
packet_set_counts(pkt) ==
  [pkt EXCEPT !.header.questions = Len(pkt.questions) % 65536,
              !.header.answers = Len(pkt.answers) % 65536,
              !.header.authoritative_entries = Len(pkt.authorities) % 65536,
              !.header.resource_entries = Len(pkt.resources) % 65536]

\* the three record loops, in order
RECURSIVE write_record_sections(_, _)
write_record_sections(b, sections) ==
  IF sections = <<>> THEN Ok(b, 0)
  ELSE Then(write_records(b, Head(sections)), LAMBDA r :
       write_record_sections(r.b, Tail(sections)))

packet_section_order(pkt) == <<pkt.answers, pkt.authorities, pkt.resources>>

packet_write_sections(pkt, b) ==
  Then(write_questions(b, pkt.questions), LAMBDA r1 :
  write_record_sections(r1.b, packet_section_order(pkt)))

\* val is the packet the call leaves behind (write takes &mut self)
DnsPacket_write(pkt, b) ==
  LET p1 == packet_set_counts(pkt) IN
  [Then(DnsHeader_write(p1.header, b), LAMBDA r0 : packet_write_sections(p1, r0.b))
     EXCEPT !.val = p1]

(***************************************************************************)
(* Inputs of the bounded checks.                                           *)
(***************************************************************************)
MaxOps == 4

MaxLabels == 3

RECURSIVE Rep(_, _)
Rep(c, n) == IF n = 0 THEN <<>> ELSE <<c>> \o Rep(c, n - 1)

RECURSIVE Join(_)
Join(labels) ==
  IF Len(labels) = 1 THEN labels[1]
  ELSE labels[1] \o <<Dot>> \o Join(Tail(labels))

\* "a", "Ab", a 60-, a 63- and a 64-byte label, and the empty label
LabelA == <<97>>

LabelAb == <<65, 98>>

Label60 == Rep(120, 60)

Label63 == Rep(88, MaxLabelLen)

Label64 == Rep(121, MaxLabelLen + 1)

\* 7 labels of 63 bytes encode to 449 bytes
Name7x63 == Join([i \in 1..7 |-> Label63])

NoOp == [op |-> "none", a |-> 0, b |-> 0, pos0 |-> 0, ok |-> TRUE, err |-> ""]

NoRq == rq_init(new, <<>>)

NoOutput == [ok |-> FALSE, err |-> "", val |-> <<>>]

Result(op, pos0, r) ==
  [op |-> op, a |-> 0, b |-> 0, pos0 |-> pos0, ok |-> r.ok, err |-> r.err]

(***************************************************************************)
(* Calls on one BytePacketBuffer, starting from BytePacketBuffer::new().   *)
(* Each action is one call; last records the call, its arguments, the      *)
(* cursor it started from and its Result.                                  *)
(***************************************************************************)
InitOps ==
  /\ buffer = new
  /\ input = <<>>
  /\ pc = "ops"
  /\ last = NoOp
  /\ output = NoOutput
  /\ rq = NoRq
  /\ nops = 0

Call(op, a, b, r) ==
  /\ nops < MaxOps
  /\ buffer' = r.b
  /\ last' = [op |-> op, a |-> a, b |-> b, pos0 |-> buffer.pos,
              ok |-> r.ok, err |-> r.err]
  /\ nops' = nops + 1
  /\ UNCHANGED <<input, pc, output, rq>>

DoRead == Call("read", 0, 0, read(buffer))

DoReadU16 == Call("read_u16", 0, 0, read_u16(buffer))

DoReadU32 == Call("read_u32", 0, 0, read_u32(buffer))

DoWrite == \E v \in {192} : Call("write", v, 0, write(buffer, v))

DoWriteU8 == \E v \in {1} : Call("write_u8", v, 0, write_u8(buffer, v))

DoWriteU16 == \E v \in {49407} : Call("write_u16", v, 0, write_u16(buffer, v))

DoWriteU32 == \E v \in {<<192, 0, 0, 1>>} : Call("write_u32", v, 0, write_u32(buffer, v))

DoReadQName == Call("read_qname", 0, 0, read_qname(buffer, <<>>))

DoWriteQName ==
  \E n \in {LabelA, Label60, Label64, Name7x63} :
    Call("write_qname", Len(n), 0, write_qname(buffer, n))

DoSeek == \E p \in {0, 509, 510, 511, 512, 513} : Call("seek", p, 0, seek(buffer, p))

DoStep == \E n \in {1, 2} : Call("step", n, 0, step(buffer, n))

DoGet == \E p \in {0, 511, 512, 513} : Call("get", p, 0, get(buffer, p))

DoGetRange ==
  \E sl \in {<<0, 0>>, <<0, 511>>, <<0, 512>>, <<510, 1>>, <<510, 2>>,
             <<511, 0>>, <<511, 1>>, <<512, 0>>, <<500, 11>>, <<500, 12>>} :
    Call("get_range", sl[1], sl[2], get_range(buffer, sl[1], sl[2]))

\* the calls of a buffer that is never repositioned by its owner
NextOps ==
  \/ DoRead
  \/ DoReadU16
  \/ DoReadU32
  \/ DoWrite
  \/ DoWriteU8
  \/ DoWriteU16
  \/ DoWriteU32
  \/ DoReadQName
  \/ DoWriteQName

SpecOps == InitOps /\ [][NextOps]_vars

\* every call of the buffer
NextAcc ==
  \/ DoRead
  \/ DoReadU16
  \/ DoWrite
  \/ DoWriteU16
  \/ DoSeek
  \/ DoStep
  \/ DoGet
  \/ DoGetRange

SpecAcc == InitOps /\ [][NextAcc]_vars

(***************************************************************************)
(* C4: read() and write() fail with the end-of-buffer error when the       *)
(* cursor is at 512 or beyond, get(pos) when pos is, and get_range(start,  *)
(* len) whenever start + len is 512 or more; read() and write() with the   *)
(* cursor at 511 and get(511) succeed.                                     *)
(***************************************************************************)
C4_Bounds ==
  /\ last.op \in {"read", "write"} =>
       /\ last.pos0 >= Capacity => ~last.ok /\ last.err = ErrEnd /\ buffer.pos = last.pos0
       /\ last.pos0 = Capacity - 1 => last.ok /\ buffer.pos = Capacity
  /\ last.op = "get" =>
       /\ last.a >= Capacity => ~last.ok /\ last.err = ErrEnd
       /\ last.a = Capacity - 1 => last.ok
  /\ last.op = "get_range" =>
       (last.a + last.b >= Capacity => ~last.ok /\ last.err = ErrEnd)

C4_Witness ==
  /\ last.op = "get_range"
  /\ last.a + last.b = Capacity
  /\ ~last.ok

(***************************************************************************)
(* C10: after any sequence of read, read_u16, read_u32, write, write_u8,   *)
(* write_u16, write_u32, read_qname and write_qname calls on a fresh       *)
(* buffer, failed calls included, the cursor is in 0..=512.                *)
(***************************************************************************)
C10_CursorInRange == buffer.pos \in 0..Capacity

C10_Witness ==
  /\ last.op = "read_u16"
  /\ last.pos0 = Capacity - 1
  /\ ~last.ok
  /\ buffer.pos = Capacity

(***************************************************************************)
(* read_qname, one loop iteration at a time, on a buffer as received from  *)
(* the network: any bytes, any start cursor.  The buffers are zero except  *)
(* for a few bytes at the start (InitPalette), the last three bytes        *)
(* (InitTail), or a chain of k pointers leading to the name "A"            *)
(* (InitChain: pointers going forward, going backward, or placed at the    *)
(* end of the buffer, where the offsets need the pointer's high bits).     *)
(***************************************************************************)
PalLen == 4

MaxChain == 7

Palette == {0, 1, 2, 192}

TailPalette == {0, 1, 192, 193, 254}

BufWith(f) == [i \in 0..(Capacity - 1) |-> IF i \in DOMAIN f THEN f[i] ELSE 0]

\* the two bytes of a compression pointer to offset t
PtrHi(t) == 192 + (t \div 256)

PtrLo(t) == t % 256

\* pointer j of k (j = 1 is read first) is at ChainAt(j); the name is at ChainAt(k + 1)
ChainAt(layout, k, j) ==
  CASE layout = "fwd"  -> 2 * (j - 1)
    [] layout = "back" -> IF j = k + 1 THEN 0 ELSE 3 + 2 * (k - j)
    [] layout = "far"  -> IF j = k + 1 THEN 509 ELSE 509 - 2 * (k + 1 - j)

ChainBuf(layout, k) ==
  LET t == ChainAt(layout, k, k + 1) IN
  [i \in 0..(Capacity - 1) |->
     IF i = t THEN 1
     ELSE IF i = t + 1 THEN 65
     ELSE IF \E j \in 1..k : i = ChainAt(layout, k, j)
     THEN PtrHi(ChainAt(layout, k, (CHOOSE j \in 1..k : i = ChainAt(layout, k, j)) + 1))
     ELSE IF \E j \in 1..k : i = ChainAt(layout, k, j) + 1
     THEN PtrLo(ChainAt(layout, k, (CHOOSE j \in 1..k : i = ChainAt(layout, k, j) + 1) + 1))
     ELSE 0]

StartRead(kind, k, buf, c) ==
  /\ buffer = [buf |-> buf, pos |-> c]
  /\ input = [kind |-> kind, k |-> k, c |-> c]
  /\ pc = "read_qname"
  /\ last = NoOp
  /\ output = NoOutput
  /\ rq = rq_init([buf |-> buf, pos |-> c], <<>>)
  /\ nops = 0

InitPalette ==
  \E f \in [0..(PalLen - 1) -> Palette] : \E c \in {0, 1, 2} :
    StartRead("palette", 0, BufWith(f), c)

InitTail ==
  \E f \in [509..511 -> TailPalette] : \E c \in {508, 509, 510, 511, 512, 513} :
    StartRead("tail", 0, BufWith(f), c)

InitChain ==
  \E layout \in {"fwd", "back", "far"} : \E k \in 0..MaxChain :
    StartRead("chain", k, ChainBuf(layout, k), ChainAt(layout, k, 1))

InitRead == InitPalette \/ InitTail \/ InitChain

RqLoop ==
  /\ pc = "read_qname"
  /\ rq.pc = "loop"
  /\ rq' = rq_body(rq)
  /\ buffer' = rq'.b
  /\ UNCHANGED <<input, pc, last, output, nops>>

RqExit ==
  /\ pc = "read_qname"
  /\ rq.pc = "exit"
  /\ rq' = rq_exit(rq)
  /\ buffer' = rq'.b
  /\ UNCHANGED <<input, pc, last, output, nops>>

NextRead == RqLoop \/ RqExit

SpecRead == InitRead /\ [][NextRead]_vars

\* the loop is a straight-line computation: a step that can be taken is taken
FairRead == SpecRead /\ WF_vars(NextRead)

RqDone == rq.pc \in {"ok", "err"}

(***************************************************************************)
(* What a name at offset q of the wire format is, read off the bytes:      *)
(* PointersMet counts the compression pointers on the way to the           *)
(* terminating zero label (n so far; 6 stands for "more than 5"), and is   *)
(* -1 when a length byte, a pointer's second byte or the byte after a      *)
(* label lies outside the buffer.                                          *)
(***************************************************************************)
RECURSIVE PointersMet(_, _, _)
PointersMet(buf, q, n) ==
  IF n >= 6 THEN n
  ELSE IF q > 511 THEN -1
  ELSE IF buf[q] >= 192
       THEN IF q + 1 > 511 THEN -1
            ELSE PointersMet(buf, (buf[q] - 192) * 256 + buf[q + 1], n + 1)
  ELSE IF buf[q] = 0 THEN n
  ELSE IF q + 1 + buf[q] > 511 THEN -1
  ELSE PointersMet(buf, q + 1 + buf[q], n)

(***************************************************************************)
(* C3: a name reached through k compression pointers and ending in an      *)
(* in-bounds label sequence is read successfully when k <= 5 (k = 5        *)
(* included) and fails with the jump-limit error when k > 5.               *)
(***************************************************************************)
C3_JumpLimit ==
  RqDone =>
    LET k == PointersMet(rq.b.buf, input.c, 0) IN
    /\ k \in 0..5 => rq.pc = "ok"
    /\ k > 5 => rq.pc = "err" /\ rq.err = ErrJumps
    /\ input.kind = "chain" =>
         /\ k = (IF input.k > 5 THEN 6 ELSE input.k)
         /\ rq.pc = "ok" => rq.outstr = <<97>>

C3_Witness ==
  /\ input.kind = "chain"
  /\ input.k = 5
  /\ rq.pc = "ok"
  /\ rq.jumps_performed = 5
  /\ rq.outstr = <<97>>

(***************************************************************************)
(* C8: after a successful read_qname started at cursor c, the cursor is    *)
(* just past the terminating zero label when no pointer was met, and two   *)
(* past the first byte of the first pointer otherwise.                     *)
(***************************************************************************)
RECURSIVE CursorAfterName(_, _)
CursorAfterName(buf, q) ==
  IF q > 511 THEN -1
  ELSE IF buf[q] >= 192 THEN q + 2
  ELSE IF buf[q] = 0 THEN q + 1
  ELSE CursorAfterName(buf, q + 1 + buf[q])

C8_CursorAfterRead ==
  rq.pc = "ok" => rq.b.pos = CursorAfterName(rq.b.buf, input.c)

C8_Witness ==
  /\ rq.pc = "ok"
  /\ rq.jumps_performed >= 2
  /\ rq.outstr # <<>>
  /\ rq.b.pos = input.c + 2 + 2
  /\ rq.p # rq.b.pos

(***************************************************************************)
(* C9: read_qname ends, with success or with an error, on every buffer     *)
(* and from every start cursor; started on a pointer that points to itself *)
(* or lies on a cycle of pointers it ends with the jump-limit error.       *)
(***************************************************************************)
PtrTarget(buf, q) == (buf[q] - 192) * 256 + buf[q + 1]

IsPtr(buf, q) == q < 511 /\ buf[q] >= 192

OnPointerCycle(buf, q) ==
  /\ IsPtr(buf, q)
  /\ \/ PtrTarget(buf, q) = q
     \/ /\ IsPtr(buf, PtrTarget(buf, q))
        /\ PtrTarget(buf, PtrTarget(buf, q)) = q

C9_Terminates ==
  /\ <>RqDone
  /\ [](RqDone /\ OnPointerCycle(rq.b.buf, input.c) =>
          rq.pc = "err" /\ rq.err = ErrJumps)

C9_Witness ==
  /\ RqDone
  /\ OnPointerCycle(rq.b.buf, input.c)
  /\ PtrTarget(rq.b.buf, input.c) # input.c
  /\ rq.err = ErrJumps

(***************************************************************************)
(* A header written at cursor c and read back: DnsHeader::write, then      *)
(* seek(c) and DnsHeader::read into a new header.                          *)
(***************************************************************************)
Flags4 == [1..4 -> BOOLEAN]

HeaderOf(id, fa, op, rc, fb, counts) ==
  [id |-> id, recursion_desired |-> fa[1], truncated_message |-> fa[2],
   authoritative_answer |-> fa[3], opcode |-> op, response |-> fa[4],
   rescode |-> rc, checking_disabled |-> fb[1], authed_data |-> fb[2],
   z |-> fb[3], recursion_available |-> fb[4],
   questions |-> counts[1], answers |-> counts[2],
   authoritative_entries |-> counts[3], resource_entries |-> counts[4]]

\* id, the four counts and the cursor the header is written at
HeaderNumbers ==
  {<<0, <<0, 0, 0, 0>>, 501>>, <<6699, <<1, 2, 3, 4>>, 500>>,
   <<65535, <<65535, 256, 255, 32768>>, 0>>}

\* opcode (16 does not fit the four bits) and rescode
HeaderCodes ==
  {<<0, "NOERROR">>, <<5, "FORMERR">>, <<10, "SERVFAIL">>, <<15, "NXDOMAIN">>,
   <<15, "NOTIMP">>, <<3, "REFUSED">>, <<16, "REFUSED">>}

InitHdr ==
  \E fa \in Flags4 : \E fb \in Flags4 : \E oc \in HeaderCodes :
  \E n \in HeaderNumbers :
    /\ buffer = seek(new, n[3]).b
    /\ input = [h |-> HeaderOf(n[1], fa, oc[1], oc[2], fb, n[2]), c |-> n[3]]
    /\ pc = "write"
    /\ last = NoOp
    /\ output = NoOutput
    /\ rq = NoRq
    /\ nops = 0

HdrWrite ==
  /\ pc = "write"
  /\ LET r == DnsHeader_write(input.h, buffer) IN
       /\ buffer' = r.b
       /\ last' = Result("DnsHeader::write", buffer.pos, r)
       /\ pc' = IF r.ok THEN "read" ELSE "failed"
  /\ UNCHANGED <<input, output, rq, nops>>

HdrRead ==
  /\ pc = "read"
  /\ LET r == DnsHeader_read(DnsHeader_new, seek(buffer, input.c).b) IN
       /\ buffer' = r.b
       /\ output' = [ok |-> r.ok, err |-> r.err, val |-> r.val]
       /\ last' = Result("DnsHeader::read", input.c, r)
       /\ pc' = "done"
  /\ UNCHANGED <<input, rq, nops>>

NextHdr == HdrWrite \/ HdrRead

SpecHdr == InitHdr /\ [][NextHdr]_vars

(***************************************************************************)
(* C1: a header with opcode in 0..15, written at cursor c and read back    *)
(* from c, is read successfully and equals the header written, in every    *)
(* field; the write succeeds whenever the 12 bytes fit (c + 12 <= 512).    *)
(***************************************************************************)
C1_HeaderRoundTrip ==
  /\ pc # "write" /\ input.c + 12 <= Capacity => pc # "failed"
  /\ pc = "done" /\ input.h.opcode \in 0..15 =>
       /\ output.ok
       /\ output.val = input.h
       /\ buffer.pos = input.c + 12

C1_Witness ==
  /\ pc = "done"
  /\ input.c = 500
  /\ input.h.opcode = 15
  /\ input.h.rescode = "NOTIMP"
  /\ input.h.response /\ input.h.recursion_available /\ input.h.z
  /\ input.h.id = 6699
  /\ output.val = input.h

(***************************************************************************)
(* A name written at cursor c and read back: write_qname, then seek(c)     *)
(* and read_qname into an empty string.  The name is the labels joined by  *)
(* dots.                                                                   *)
(***************************************************************************)
LabelSet == {<<>>, LabelA, LabelAb, Label63, Label64}

LabelSeqs == UNION {[1..n -> LabelSet] : n \in 1..MaxLabels}

InitName ==
  \E ls \in LabelSeqs : \E c \in {0, 319, 320, 510} :
    /\ buffer = seek(new, c).b
    /\ input = [name |-> Join(ls), labels |-> ls, c |-> c]
    /\ pc = "write"
    /\ last = NoOp
    /\ output = NoOutput
    /\ rq = NoRq
    /\ nops = 0

NameWrite ==
  /\ pc = "write"
  /\ LET r == write_qname(buffer, input.name) IN
       /\ buffer' = r.b
       /\ last' = Result("write_qname", buffer.pos, r)
       /\ pc' = IF r.ok THEN "read" ELSE "failed"
  /\ UNCHANGED <<input, output, rq, nops>>

NameRead ==
  /\ pc = "read"
  /\ LET r == read_qname(seek(buffer, input.c).b, <<>>) IN
       /\ buffer' = r.b
       /\ output' = [ok |-> r.ok, err |-> r.err, val |-> r.val]
       /\ last' = Result("read_qname", input.c, r)
       /\ pc' = "done"
  /\ UNCHANGED <<input, rq, nops>>

NextName == NameWrite \/ NameRead

SpecName == InitName /\ [][NextName]_vars

\* the bytes the labels ls take on the wire, without the terminating zero
RECURSIVE WireLen(_)
WireLen(ls) == IF ls = <<>> THEN 0 ELSE 1 + Len(Head(ls)) + WireLen(Tail(ls))

Lower(s) == [i \in 1..Len(s) |-> IF s[i] \in 65..90 THEN s[i] + 32 ELSE s[i]]

AllLabelsFit == \A i \in 1..Len(input.labels) : Len(input.labels[i]) <= 63

AllLabelsNonEmpty == \A i \in 1..Len(input.labels) : Len(input.labels[i]) >= 1

(***************************************************************************)
(* C2: for an ASCII name whose labels are each at most 63 bytes and whose  *)
(* encoding fits in the buffer, write_qname at c, seek(c) and read_qname   *)
(* into an empty string give lowercase(name).                              *)
(***************************************************************************)
C2_NameRoundTrip ==
  pc = "done" /\ AllLabelsFit =>
    output.ok /\ output.val = Lower(input.name)

\* the same, for names without an empty label
NameRoundTripNonEmpty ==
  /\ pc # "write" /\ AllLabelsFit /\ input.c + WireLen(input.labels) + 1 <= Capacity =>
       pc # "failed"
  /\ pc = "done" /\ AllLabelsFit /\ AllLabelsNonEmpty =>
       /\ output.ok
       /\ output.val = Lower(input.name)
       /\ buffer.pos = input.c + WireLen(input.labels) + 1

(***************************************************************************)
(* C5: write_qname fails with the label-too-long error whenever some label *)
(* of the name is longer than 63 bytes, and succeeds for a name whose      *)
(* labels are all at most 63 bytes when the buffer has room for it.        *)
(***************************************************************************)
C5_LabelTooLong ==
  pc # "write" =>
    /\ ~AllLabelsFit => last.op = "write_qname" /\ ~last.ok /\ last.err = ErrLabel
    /\ AllLabelsFit /\ input.c + WireLen(input.labels) + 1 <= Capacity => pc # "failed"

\* the labels before the first one longer than 63 bytes
BeforeLong ==
  LET k == CHOOSE i \in 1..Len(input.labels) :
             /\ Len(input.labels[i]) > 63
             /\ \A j \in 1..(i - 1) : Len(input.labels[j]) <= 63
  IN SubSeq(input.labels, 1, k - 1)

(***************************************************************************)
(* C5, amended: when some label is longer than 63 bytes write_qname fails, *)
(* with the label-too-long error if the buffer has room for the labels     *)
(* before the first such label and with the end-of-buffer error if not; a  *)
(* name whose labels are all at most 63 bytes is written successfully when *)
(* the buffer has room for it.                                             *)
(***************************************************************************)
C5_LabelTooLongWithRoom ==
  pc # "write" =>
    /\ ~AllLabelsFit =>
         /\ pc = "failed"
         /\ last.err = (IF input.c + WireLen(BeforeLong) <= Capacity
                        THEN ErrLabel ELSE ErrEnd)
    /\ AllLabelsFit /\ input.c + WireLen(input.labels) + 1 <= Capacity => pc # "failed"

C5_Witness ==
  /\ pc = "failed"
  /\ input.labels = <<LabelA, Label64>>
  /\ input.c = 0
  /\ last.err = ErrLabel
  /\ buffer.pos = 2

(***************************************************************************)
(* A packet built by application code (header fields set, questions and    *)
(* records pushed), written into a new buffer with DnsPacket::write and    *)
(* read back with seek(0) and DnsPacket::from_buffer.                      *)
(***************************************************************************)
MaxQuestions == 2

\* the labels of a question's name, and its type
QuestionSet ==
  {<<<<LabelA>>, QType("NS")>>,
   <<<<LabelA, <<98, 99>>>>, QType("A")>>,
   <<<<LabelA>>, UNKNOWN(99)>>,
   <<<<LabelAb, LabelA>>, QType("A")>>,
   <<<<<<>>>>, QType("NS")>>,
   <<<<LabelA, <<>>>>, QType("A")>>,
   <<[i \in 1..4 |-> Label63], QType("AAAA")>>}

QuestionSeqs == UNION {[1..n -> QuestionSet] : n \in 0..MaxQuestions}

RecordA1 == [domain |-> <<97>>, addr |-> <<192, 0, 2, 1>>, ttl |-> <<0, 0, 1, 44>>]

RecordA2 == [domain |-> <<98, 46, 99>>, addr |-> <<10, 0, 0, 255>>, ttl |-> <<255, 0, 0, 0>>]

\* recursion_desired, the counts the caller stored in the header, and the
\* answers, authorities and resources
PacketShapes ==
  {<<FALSE, <<0, 0, 0, 0>>, <<<<>>, <<>>, <<>>>>>>,
   <<TRUE, <<1, 0, 0, 0>>, <<<<>>, <<>>, <<>>>>>>,
   <<TRUE, <<7, 9, 11, 13>>, <<<<>>, <<>>, <<>>>>>>,
   <<TRUE, <<1, 0, 0, 0>>, <<<<>>, <<RecordA2>>, <<RecordA1>>>>>>,
   <<FALSE, <<7, 9, 11, 13>>, <<<<RecordA2>>, <<RecordA1>>, <<RecordA2, RecordA2>>>>>>}

PacketOf(sh, qs) ==
  [header |-> [DnsHeader_new EXCEPT !.id = 6666,
                                    !.recursion_desired = sh[1],
                                    !.questions = sh[2][1],
                                    !.answers = sh[2][2],
                                    !.authoritative_entries = sh[2][3],
                                    !.resource_entries = sh[2][4]],
   questions |-> [i \in 1..Len(qs) |-> DnsQuestion_new(Join(qs[i][1]), qs[i][2])],
   answers |-> sh[3][1], authorities |-> sh[3][2], resources |-> sh[3][3]]

InitPkt ==
  \E sh \in PacketShapes : \E qs \in QuestionSeqs :
    /\ buffer = new
    /\ input = [pkt |-> PacketOf(sh, qs), before |-> PacketOf(sh, qs),
                labels |-> [i \in 1..Len(qs) |-> qs[i][1]]]
    /\ pc = "write"
    /\ last = NoOp
    /\ output = NoOutput
    /\ rq = NoRq
    /\ nops = 0

PktWrite ==
  /\ pc = "write"
  /\ LET r == DnsPacket_write(input.pkt, buffer) IN
       /\ buffer' = r.b
       /\ input' = [input EXCEPT !.pkt = r.val]
       /\ last' = Result("DnsPacket::write", buffer.pos, r)
       /\ pc' = IF r.ok THEN "read" ELSE "failed"
  /\ UNCHANGED <<output, rq, nops>>

PktRead ==
  /\ pc = "read"
  /\ LET r == DnsPacket_from_buffer(seek(buffer, 0).b) IN
       /\ buffer' = r.b
       /\ output' = [ok |-> r.ok, err |-> r.err, val |-> r.val]
       /\ last' = Result("DnsPacket::from_buffer", 0, r)
       /\ pc' = "done"
  /\ UNCHANGED <<input, rq, nops>>

NextPkt == PktWrite \/ PktRead

SpecPkt == InitPkt /\ [][NextPkt]_vars

OnlyQuestions ==
  input.before.answers = <<>> /\ input.before.authorities = <<>>
    /\ input.before.resources = <<>>

LowercaseNames ==
  \A i \in 1..Len(input.before.questions) :
    input.before.questions[i].name = Lower(input.before.questions[i].name)

QuestionLabelsFit ==
  \A i \in 1..Len(input.labels) : \A j \in 1..Len(input.labels[i]) :
    Len(input.labels[i][j]) <= 63

QuestionLabelsNonEmpty ==
  \A i \in 1..Len(input.labels) : \A j \in 1..Len(input.labels[i]) :
    Len(input.labels[i][j]) >= 1

SameIdAndFlags(h1, h2) ==
  /\ h1.id = h2.id
  /\ h1.recursion_desired = h2.recursion_desired
  /\ h1.truncated_message = h2.truncated_message
  /\ h1.authoritative_answer = h2.authoritative_answer
  /\ h1.response = h2.response
  /\ h1.checking_disabled = h2.checking_disabled
  /\ h1.authed_data = h2.authed_data
  /\ h1.z = h2.z
  /\ h1.recursion_available = h2.recursion_available

(***************************************************************************)
(* C6: a packet that holds only questions, each with a lowercase ASCII     *)
(* name of labels of at most 63 bytes, and that fits in 512 bytes, is read *)
(* back by from_buffer with the same header id and flags, the same number  *)
(* of questions, and each question equal to the original at its index.     *)
(***************************************************************************)
C6_PacketRoundTrip ==
  pc = "done" /\ OnlyQuestions /\ LowercaseNames /\ QuestionLabelsFit =>
    /\ output.ok
    /\ SameIdAndFlags(output.val.header, input.before.header)
    /\ Len(output.val.questions) = Len(input.before.questions)
    /\ \A i \in 1..Len(input.before.questions) :
         output.val.questions[i] = input.before.questions[i]

\* the same, for names without an empty label
PacketRoundTripNonEmpty ==
  pc = "done" /\ OnlyQuestions /\ LowercaseNames /\ QuestionLabelsFit
    /\ QuestionLabelsNonEmpty =>
    /\ output.ok
    /\ SameIdAndFlags(output.val.header, input.before.header)
    /\ output.val.questions = input.before.questions

\* the bytes a call wrote into a new buffer
Written(r) == [i \in 1..r.b.pos |-> r.b.buf[i - 1]]

U16At(buf, i) == buf[i] * 256 + buf[i + 1]

(***************************************************************************)
(* C7: DnsPacket::write overwrites the four counts of the header with the  *)
(* lengths of the four sequences, whatever the caller stored; after a      *)
(* successful write bytes 4..11 hold these lengths and the questions,      *)
(* answers, authorities and resources follow the header in that order.     *)
(***************************************************************************)
C7_CountsFromLengths ==
  pc # "write" =>
    LET p == input.pkt
        body == Written(write_questions(new, p.questions))
                  \o Written(write_records(new, p.answers))
                  \o Written(write_records(new, p.authorities))
                  \o Written(write_records(new, p.resources))
    IN
    /\ p.header.questions = Len(input.before.questions)
    /\ p.header.answers = Len(input.before.answers)
    /\ p.header.authoritative_entries = Len(input.before.authorities)
    /\ p.header.resource_entries = Len(input.before.resources)
    /\ pc # "failed" =>
         /\ U16At(buffer.buf, 4) = Len(p.questions)
         /\ U16At(buffer.buf, 6) = Len(p.answers)
         /\ U16At(buffer.buf, 8) = Len(p.authorities)
         /\ U16At(buffer.buf, 10) = Len(p.resources)
         /\ pc = "read" =>
              /\ buffer.pos = 12 + Len(body)
              /\ \A i \in 1..Len(body) : buffer.buf[11 + i] = body[i]

C7_Witness ==
  /\ pc = "read"
  /\ input.before.header.questions = 7
  /\ Len(input.pkt.questions) = 2
  /\ Len(input.pkt.answers) = 1
  /\ Len(input.pkt.resources) = 2
  /\ U16At(buffer.buf, 4) = 2
  /\ U16At(buffer.buf, 6) = 1
  /\ U16At(buffer.buf, 10) = 2

====
